---- MODULE Spec2Model ----
(***************************************************************************)
(* The zpdf Python binding (python/zpdf/__init__.py): the Document wrapper *)
(* over the native engine's C ABI.  The wrapper's handlers are operators   *)
(* translated from the Python source; the native engine, whose source is   *)
(* not part of the binding, appears as the results it hands back (drawn    *)
(* from small sets) and as a ledger of what the wrapper asked of it: live  *)
(* handles, zpdf_close calls, blocks handed out and released.              *)
(***************************************************************************)
EXTENDS Integers, Sequences, FiniteSets, TLC

\* ------------------------------------------------------------------ bounds

\* Largest page count of a document.
MaxPages == 2

\* ------------------------------------------------------------------ values

\* ffi.NULL, as a pointer and as a handle.
NULL == 0
\* The one handle the engine gives to the one Document of a behaviour.
TheHandle == 1
\* Python's None for the _unsafe_buffer slot.
None == "None"
\* The cffi from_buffer object kept in _unsafe_buffer.
HeldBuffer == "from_buffer"

\* Optional values of a result: a value, or Python's None for an int, a str
\* and a rectangle.
Some(v) == [some |-> TRUE, v |-> v]
NoneInt == [some |-> FALSE, v |-> 0]
NoneStr == [some |-> FALSE, v |-> <<>>]
NoneRect == [some |-> FALSE, v |-> <<0, 0, 0, 0>>]

\* Byte strings the engine may put in a buffer: empty, 'A', a form feed, the
\* two bytes of U+00E9, and the first of them alone, which is invalid UTF-8.
Buffers == {<<>>, <<65>>, <<12>>, <<195, 169>>, <<195>>}
\* U+FFFD, what errors="replace" puts for an undecodable byte.
Replacement == 65533

RECURSIVE DecodeFrom(_, _)
\* bytes.decode("utf-8", errors="replace") from position i, for bytes below
\* 0xE0: an ASCII byte is itself, a lead byte 0xC2..0xDF followed by a
\* continuation byte 0x80..0xBF is one code point, any other byte is U+FFFD.
DecodeFrom(b, i) ==
    IF i > Len(b) THEN <<>>
    ELSE IF b[i] < 128 THEN <<b[i]>> \o DecodeFrom(b, i + 1)
    ELSE IF /\ b[i] >= 194 /\ b[i] <= 223
            /\ i + 1 <= Len(b) /\ b[i + 1] >= 128 /\ b[i + 1] <= 191
         THEN <<(b[i] - 192) * 64 + (b[i + 1] - 128)>> \o DecodeFrom(b, i + 2)
    ELSE <<Replacement>> \o DecodeFrom(b, i + 1)

\* data.decode("utf-8", errors="replace")
decode(b) == DecodeFrom(b, 1)

RECURSIVE EncodeFrom(_, _)
\* str.encode("utf-8") from position i, for code points of the Basic
\* Multilingual Plane: one, two or three bytes for a code point.
EncodeFrom(s, i) ==
    IF i > Len(s) THEN <<>>
    ELSE IF s[i] < 128 THEN <<s[i]>> \o EncodeFrom(s, i + 1)
    ELSE IF s[i] < 2048
         THEN <<192 + (s[i] \div 64), 128 + (s[i] % 64)>> \o EncodeFrom(s, i + 1)
    ELSE <<224 + (s[i] \div 4096), 128 + ((s[i] \div 64) % 64), 128 + (s[i] % 64)>>
         \o EncodeFrom(s, i + 1)

\* A surrogate code point, which a str may hold and UTF-8 has no bytes for.
IsSurrogate(cp) == cp >= 55296 /\ cp <= 57343

\* s.encode("utf-8"): the bytes, or UnicodeEncodeError for a str that holds a
\* surrogate.
encode(s) ==
    IF \E i \in 1..Len(s) : IsSurrogate(s[i])
    THEN [exc |-> "UnicodeEncodeError", bytes |-> <<>>]
    ELSE [exc |-> "none", bytes |-> EncodeFrom(s, 1)]

\* ------------------------------------------------------------------ state

VARIABLES
    phase,          \* the Python object: "none", "open" (constructed), "failed"
                    \* (the constructor raised), "dead" and "failed_dead"
                    \* (collected)
    handle,         \* Document._handle
    closed,         \* Document._closed
    unsafe_buffer,  \* Document._unsafe_buffer
    inWith,         \* the program is inside a with-block over the Document
    gen,            \* the generator made by iter(doc): [st, n, i], with the
                    \* number k of items it has yielded, whether an iteration
                    \* of the Document has run to its end (ended), and whether
                    \* one had when this generator was made (again)
    pages,          \* the engine's page count of the document
    text,           \* engine: the text of each page of the document, as bytes
    live,           \* engine: handles opened and not yet closed
    closeCalls,     \* engine: number of zpdf_close calls made with a non-null handle
    faults,         \* engine: misuse seen (a release of a block it does not hold, ...)
    opened_from,    \* the kind of source the Document was constructed from
    at,             \* threads sharing the Document: where each is in its call
    guard,          \* the memory guards: their inputs and what each decided
    last            \* the last operation: its arguments, the Document before
                    \* it, its outcome, the native calls it made, in order, and
                    \* the blocks the engine handed out that it did not release

vars == <<phase, handle, closed, unsafe_buffer, inWith, gen, pages, text, live,
          closeCalls, faults, opened_from, at, guard, last>>

\* The Document's slots as one value.
Doc == [handle |-> handle, closed |-> closed, unsafe_buffer |-> unsafe_buffer]

\* One native call: the function, the handle passed, the page argument, the
\* pointer returned (or, for a release, passed), the length or count written
\* (or passed) and the result code.
Call(fn, h, p, ptr, n, rc) ==
    [fn |-> fn, h |-> h, p |-> p, ptr |-> ptr, n |-> n, rc |-> rc]

\* The outcome of a handler: the exception raised ("none": it returned), the
\* kind of the value returned, the value, and the native calls made.
Ret(kind, val, calls) == [exc |-> "none", kind |-> kind, val |-> val, calls |-> calls]
Raise(exc, calls) == [exc |-> exc, kind |-> "none", val |-> 0, calls |-> calls]

\* ------------------------------------------------- the native engine (ABI)

\* zpdf_page_count: the page count of a live handle, a negative sentinel
\* for any other handle.
zpdf_page_count(h) == IF h \in live THEN pages ELSE -1

\* zpdf_get_page_info's result code: 0 for a page of a live handle, non-zero
\* outside [0, page_count).
zpdf_get_page_info(h, page_num) ==
    IF h \in live /\ page_num >= 0 /\ page_num < pages THEN 0 ELSE -1

\* The pointer of a block the engine hands out: every operation makes at most
\* one call that hands out a block, and holds no block of an earlier operation.
NewPtr == 1

\* What a buffer-returning call may hand back: a null pointer with any
\* length left in out_len, or a fresh buffer of n bytes.
BufOutcomes ==
    {[ptr |-> NULL, n |-> n, data |-> <<>>] : n \in 0..1}
    \cup {[ptr |-> NewPtr, n |-> Len(b), data |-> b] : b \in Buffers}

\* Arrays of no and one element drawn from Items, and of two: two different
\* elements of Items in both orders.
Arrays(Items) ==
    LET x == CHOOSE v \in Items : TRUE
        y == CHOOSE v \in Items : v # x
    IN  {<<>>, <<x, y>>, <<y, x>>} \cup {<<v>> : v \in Items}

\* What an array-returning call may hand back, for elements drawn from
\* Items: any result code, a null or a fresh array, any count.
ArrOutcomes(Items) ==
    {[rc |-> rc, ptr |-> NULL, n |-> n, items |-> <<>>] : rc \in {0, -1}, n \in 0..1}
    \cup {[rc |-> rc, ptr |-> NewPtr, n |-> Len(xs), items |-> xs] :
            rc \in {0, -1}, xs \in Arrays(Items)}

\* The functions that hand out a block, with the one that releases it.
ReleasedBy ==
    [zpdf_extract_page |-> "zpdf_free_buffer",
     zpdf_extract_page_reading_order |-> "zpdf_free_buffer",
     zpdf_extract_all_fast |-> "zpdf_free_buffer",
     zpdf_extract_all_reading_order |-> "zpdf_free_buffer",
     zpdf_extract_page_markdown |-> "zpdf_free_buffer",
     zpdf_extract_all_markdown |-> "zpdf_free_buffer",
     zpdf_get_page_label |-> "zpdf_free_buffer",
     zpdf_extract_bounds |-> "zpdf_free_bounds",
     zpdf_get_outline |-> "zpdf_free_outline",
     zpdf_search |-> "zpdf_free_search_results",
     zpdf_get_page_links |-> "zpdf_free_links",
     zpdf_get_page_images |-> "zpdf_free_images",
     zpdf_get_form_fields |-> "zpdf_free_form_fields"]

BufferFns ==
    {"zpdf_extract_page", "zpdf_extract_page_reading_order", "zpdf_extract_all_fast",
     "zpdf_extract_all_reading_order", "zpdf_extract_page_markdown",
     "zpdf_extract_all_markdown", "zpdf_get_page_label"}

ArrayFns ==
    {"zpdf_extract_bounds", "zpdf_get_outline", "zpdf_search", "zpdf_get_page_links",
     "zpdf_get_page_images", "zpdf_get_form_fields"}

AllocFns == BufferFns \cup ArrayFns

FreeFns == {ReleasedBy[f] : f \in AllocFns}

OpenFns == {"zpdf_open", "zpdf_open_memory_unsafe"}

\* The engine's ledger as an operation starts: heap is the set of blocks
\* handed out to the operation and not yet released.
Engine == [live |-> live, closeCalls |-> closeCalls, heap |-> {}, faults |-> faults]

\* The ledger after one native call.
EngineCall(e, c) ==
    IF c.fn \in OpenFns THEN
        IF c.ptr # NULL THEN [e EXCEPT !.live = @ \cup {c.ptr}] ELSE e
    ELSE IF c.fn = "zpdf_close" THEN
        IF c.h = NULL THEN [e EXCEPT !.faults = @ \cup {"close_null"}]
        ELSE [e EXCEPT !.closeCalls = @ + 1,
                       !.live = @ \ {c.h},
                       !.faults = IF c.h \in e.live THEN @ ELSE @ \cup {"double_close"}]
    ELSE IF c.fn \in AllocFns THEN
        [e EXCEPT !.heap = IF c.ptr # NULL
                           THEN @ \cup {[ptr |-> c.ptr, n |-> c.n, by |-> ReleasedBy[c.fn]]}
                           ELSE @,
                  !.faults = IF c.h \in e.live THEN @ ELSE @ \cup {"dead_handle"}]
    ELSE IF c.fn \in FreeFns THEN
        LET blk == [ptr |-> c.ptr, n |-> c.n, by |-> c.fn]
        IN  IF blk \in e.heap THEN [e EXCEPT !.heap = @ \ {blk}]
            ELSE [e EXCEPT !.faults = @ \cup {"bad_free"}]
    ELSE [e EXCEPT !.faults = IF c.h \in e.live THEN @ ELSE @ \cup {"dead_handle"}]

RECURSIVE EngineRun(_, _)
\* The ledger after a sequence of native calls.
EngineRun(e, calls) ==
    IF calls = <<>> THEN e ELSE EngineRun(EngineCall(e, Head(calls)), Tail(calls))

\* ------------------------------------- the native engine (text and search)

\* The page-separator control character of whole-document output: form feed.
Separator == 12

RECURSIVE JoinPages(_, _)
\* The pages of t from page i on, one separator between consecutive pages,
\* none before the first page or after the last.
JoinPages(t, i) ==
    IF i > Len(t) THEN <<>>
    ELSE (IF i > 1 THEN <<Separator>> ELSE <<>>) \o t[i] \o JoinPages(t, i + 1)

\* The buffer the engine hands back for the output out; for an output of no
\* bytes the pointer is emptyPtr: a buffer of length zero, or NULL.
Buffer(out, emptyPtr) ==
    [ptr |-> IF out = <<>> THEN emptyPtr ELSE NewPtr, n |-> Len(out), data |-> out]

\* zpdf_extract_page and zpdf_extract_page_reading_order: the text of the page.
zpdf_extract_page(h, page_num, emptyPtr) ==
    IF h \in live /\ page_num >= 0 /\ page_num < Len(text)
    THEN Buffer(text[page_num + 1], emptyPtr)
    ELSE [ptr |-> NULL, n |-> 1, data |-> <<>>]

\* zpdf_extract_all_fast and zpdf_extract_all_reading_order: the text of
\* every page, the pages separated.
zpdf_extract_all(h, emptyPtr) ==
    IF h \in live THEN Buffer(JoinPages(text, 1), emptyPtr)
    ELSE [ptr |-> NULL, n |-> 1, data |-> <<>>]

\* Case folding of a byte: an ASCII capital letter becomes the small letter.
Fold(b) == IF b >= 65 /\ b <= 90 THEN b + 32 ELSE b

FoldAll(s) == [i \in 1..Len(s) |-> Fold(s[i])]

RECURSIVE HitsFrom(_, _, _)
\* The linear scan of search: the matches of the query q at offset o of page
\* p (counted from 1) and after it, page by page: every place where the
\* page's text equals q but for the case of letters.  The context of a match
\* is the text matched.
HitsFrom(q, p, o) ==
    IF p > Len(text) THEN <<>>
    ELSE IF o + Len(q) > Len(text[p]) THEN HitsFrom(q, p + 1, 0)
    ELSE (IF FoldAll(SubSeq(text[p], o + 1, o + Len(q))) = FoldAll(q)
          THEN <<[page |-> p - 1, offset |-> o,
                  context |-> SubSeq(text[p], o + 1, o + Len(q)), context_len |-> Len(q)]>>
          ELSE <<>>)
         \o HitsFrom(q, p, o + 1)

\* zpdf_search for the query bytes q: the matches, in an array; for no match
\* the pointer is emptyPtr: an array of no element, or NULL.
zpdf_search(h, q, emptyPtr) ==
    LET hits == IF h \in live THEN HitsFrom(q, 1, 0) ELSE <<>>
    IN  [rc |-> IF h \in live THEN 0 ELSE -1,
         ptr |-> IF hits = <<>> THEN emptyPtr ELSE NewPtr,
         n |-> Len(hits), items |-> hits]

\* ------------------------------------------------ Document: the lifecycle

\* Document.__init__: the slots are set, the native open for the kind of
\* source is called and hands back h, and a null handle raises.
init(source, h) ==
    LET buf == IF source = "bytes" THEN HeldBuffer ELSE None
        fn == IF source = "bytes" THEN "zpdf_open_memory_unsafe" ELSE "zpdf_open"
    IN  [doc |-> [handle |-> h, closed |-> FALSE, unsafe_buffer |-> buf],
         exc |-> IF h = NULL THEN "InvalidPdfError" ELSE "none",
         calls |-> <<Call(fn, NULL, 0, h, 0, 0)>>]

\* close that sets the flag and keeps the handle.
close_flag_only(d) ==
    IF ~d.closed /\ d.handle # NULL
    THEN [doc |-> [d EXCEPT !.closed = TRUE], exc |-> "none",
          calls |-> <<Call("zpdf_close", d.handle, 0, NULL, 0, 0)>>]
    ELSE [doc |-> d, exc |-> "none", calls |-> <<>>]

\* close with the state update forgotten: the handle stays, the flag is not set.
close_keeps_state(d) ==
    IF ~d.closed /\ d.handle # NULL
    THEN [doc |-> d, exc |-> "none",
          calls |-> <<Call("zpdf_close", d.handle, 0, NULL, 0, 0)>>]
    ELSE [doc |-> d, exc |-> "none", calls |-> <<>>]

\* close without the test for a null handle.
close_any_handle(d) ==
    IF ~d.closed
    THEN [doc |-> [handle |-> NULL, closed |-> TRUE, unsafe_buffer |-> None],
          exc |-> "none",
          calls |-> <<Call("zpdf_close", d.handle, 0, NULL, 0, 0)>>]
    ELSE [doc |-> d, exc |-> "none", calls |-> <<>>]

\* Document.close
close(d) ==
    IF ~d.closed /\ d.handle # NULL
    THEN [doc |-> [handle |-> NULL, closed |-> TRUE, unsafe_buffer |-> None],
          exc |-> "none",
          calls |-> <<Call("zpdf_close", d.handle, 0, NULL, 0, 0)>>]
    ELSE [doc |-> d, exc |-> "none", calls |-> <<>>]

\* Document.__del__
del(d) == IF ~d.closed THEN close(d) ELSE [doc |-> d, exc |-> "none", calls |-> <<>>]

\* __exit__ that does not close.
exit_keeps_open(d) == [done |-> [doc |-> d, exc |-> "none", calls |-> <<>>], suppress |-> FALSE]

\* Document.__exit__: closes, and returns None, so that an exception of the
\* with-block's body is not suppressed.
exit(d) == [done |-> close(d), suppress |-> FALSE]

\* _check_open that never raises.
check_open_lax(d) == Ret("none", 0, <<>>)

\* Document._check_open
check_open(d) == IF d.closed THEN Raise("ValueError", <<>>) ELSE Ret("none", 0, <<>>)

\* ------------------------------------------------- Document: the queries

\* page_count that hands on whatever the native call handed back.
page_count_unchecked(d, count) ==
    LET c == check_open(d)
        calls == <<Call("zpdf_page_count", d.handle, 0, NULL, count, 0)>>
    IN  IF c.exc # "none" THEN c ELSE Ret("int", count, calls)

\* Document.page_count, the native call handing back count.
page_count(d, count) ==
    LET c == check_open(d)
        calls == <<Call("zpdf_page_count", d.handle, 0, NULL, count, 0)>>
    IN  IF c.exc # "none" THEN c
        ELSE IF count < 0 THEN Raise("InvalidPdfError", calls)
        ELSE Ret("int", count, calls)

\* Document.__len__
len(d, count) == page_count(d, count)

\* Document.is_encrypted, the native call handing back enc.
is_encrypted(d, enc) ==
    LET c == check_open(d)
    IN  IF c.exc # "none" THEN c
        ELSE Ret("bool", enc, <<Call("zpdf_is_encrypted", d.handle, 0, NULL, 0, 0)>>)

\* get_page_info that does not look at the result code.
get_page_info_unchecked(d, page_num, result, info) ==
    LET c == check_open(d)
        calls == <<Call("zpdf_get_page_info", d.handle, page_num, NULL, 0, result)>>
    IN  IF c.exc # "none" THEN c
        ELSE Ret("PageInfo", [width |-> info[1], height |-> info[2], rotation |-> info[3]],
                 calls)

\* Document.get_page_info, the native call handing back the result code and
\* info = <<width, height, rotation>>.
get_page_info(d, page_num, result, info) ==
    LET c == check_open(d)
        calls == <<Call("zpdf_get_page_info", d.handle, page_num, NULL, 0, result)>>
    IN  IF c.exc # "none" THEN c
        ELSE IF result # 0 THEN Raise("PageNotFoundError", calls)
        ELSE Ret("PageInfo", [width |-> info[1], height |-> info[2], rotation |-> info[3]],
                 calls)

\* The first half of the range check with <= for <.
page_not_positive(page_num) == page_num <= 0

\* The first half of the range check of extract_page, extract_bounds and
\* extract_page_markdown: page_num < 0 (the count is not read when it holds).
page_negative(page_num) == page_num < 0

\* The second half of the range check with > for >=.
page_beyond_strict(page_num, count) == page_num > count

\* The second half of the range check: page_num >= self.page_count.
page_beyond(page_num, count) == page_num >= count

\* The range check of extract_page, extract_bounds and extract_page_markdown,
\* after _check_open: the handler's outcome so far, exc "none" when the page
\* is in range.
range_check(d, page_num, count) ==
    IF page_negative(page_num) THEN Raise("PageNotFoundError", <<>>)
    ELSE LET pc == page_count(d, count)
         IN  IF pc.exc # "none" THEN pc
             ELSE IF page_beyond(page_num, pc.val) THEN Raise("PageNotFoundError", pc.calls)
             ELSE Ret("none", 0, pc.calls)

\* buffer_result that gives the handle up when the native call failed: it
\* calls zpdf_close on the handle the call was made with.
buffer_result_closes(b, calls) ==
    IF b.ptr = NULL
    THEN IF b.n = 0 THEN Ret("str", <<>>, calls)
         ELSE Raise("ExtractionError",
                    calls \o <<Call("zpdf_close", calls[Len(calls)].h, 0, NULL, 0, 0)>>)
    ELSE Ret("str", decode(SubSeq(b.data, 1, b.n)),
             calls \o <<Call("zpdf_free_buffer", NULL, 0, b.ptr, b.n, 0)>>)

\* buffer_result that releases only a buffer that holds bytes.
buffer_result_keeps_empty(b, calls) ==
    IF b.ptr = NULL
    THEN IF b.n = 0 THEN Ret("str", <<>>, calls) ELSE Raise("ExtractionError", calls)
    ELSE Ret("str", decode(SubSeq(b.data, 1, b.n)),
             IF b.n = 0 THEN calls
             ELSE calls \o <<Call("zpdf_free_buffer", NULL, 0, b.ptr, b.n, 0)>>)

\* buffer_result that takes every null pointer for a failure.
buffer_result_null_fails(b, calls) ==
    IF b.ptr = NULL
    THEN Raise("ExtractionError", calls)
    ELSE Ret("str", decode(SubSeq(b.data, 1, b.n)),
             calls \o <<Call("zpdf_free_buffer", NULL, 0, b.ptr, b.n, 0)>>)

\* What extract_page, extract_all, extract_page_markdown and
\* extract_all_markdown do with the buffer b the native call handed back: a
\* null pointer is an empty result when out_len is 0 and a failure
\* otherwise; a buffer is copied, decoded and released.
buffer_result(b, calls) ==
    IF b.ptr = NULL
    THEN IF b.n = 0 THEN Ret("str", <<>>, calls) ELSE Raise("ExtractionError", calls)
    ELSE Ret("str", decode(SubSeq(b.data, 1, b.n)),
             calls \o <<Call("zpdf_free_buffer", NULL, 0, b.ptr, b.n, 0)>>)

\* Document.extract_page
extract_page(d, page_num, reading_order, count, b) ==
    LET c == check_open(d)
        rc == range_check(d, page_num, count)
        fn == IF reading_order THEN "zpdf_extract_page_reading_order"
              ELSE "zpdf_extract_page"
    IN  IF c.exc # "none" THEN c
        ELSE IF rc.exc # "none" THEN rc
        ELSE buffer_result(b, rc.calls \o <<Call(fn, d.handle, page_num, b.ptr, b.n, 0)>>)

\* extract_all that takes every mode but "accuracy" for "fast".
extract_all_default_fast(d, mode, b) ==
    LET c == check_open(d)
    IN  IF c.exc # "none" THEN c
        ELSE IF mode = "accuracy"
        THEN buffer_result(b, <<Call("zpdf_extract_all_reading_order", d.handle, 0, b.ptr, b.n, 0)>>)
        ELSE buffer_result(b, <<Call("zpdf_extract_all_fast", d.handle, 0, b.ptr, b.n, 0)>>)

\* extract_all that reads one byte less than out_len of the buffer.
extract_all_short(d, mode, b) ==
    LET c == check_open(d)
        short == [b EXCEPT !.n = IF @ > 0 THEN @ - 1 ELSE 0]
    IN  IF c.exc # "none" THEN c
        ELSE IF mode = "accuracy"
        THEN buffer_result(short, <<Call("zpdf_extract_all_reading_order", d.handle, 0, b.ptr, b.n, 0)>>)
        ELSE IF mode = "fast"
        THEN buffer_result(short, <<Call("zpdf_extract_all_fast", d.handle, 0, b.ptr, b.n, 0)>>)
        ELSE Raise("ValueError", <<>>)

\* Document.extract_all
extract_all(d, mode, b) ==
    LET c == check_open(d)
    IN  IF c.exc # "none" THEN c
        ELSE IF mode = "accuracy"
        THEN buffer_result(b, <<Call("zpdf_extract_all_reading_order", d.handle, 0, b.ptr, b.n, 0)>>)
        ELSE IF mode = "fast"
        THEN buffer_result(b, <<Call("zpdf_extract_all_fast", d.handle, 0, b.ptr, b.n, 0)>>)
        ELSE Raise("ValueError", <<>>)

\* Document.extract_page_markdown
extract_page_markdown(d, page_num, count, b) ==
    LET c == check_open(d)
        rc == range_check(d, page_num, count)
    IN  IF c.exc # "none" THEN c
        ELSE IF rc.exc # "none" THEN rc
        ELSE buffer_result(b, rc.calls \o
                <<Call("zpdf_extract_page_markdown", d.handle, page_num, b.ptr, b.n, 0)>>)

\* Document.extract_all_markdown
extract_all_markdown(d, b) ==
    LET c == check_open(d)
    IN  IF c.exc # "none" THEN c
        ELSE buffer_result(b, <<Call("zpdf_extract_all_markdown", d.handle, 0, b.ptr, b.n, 0)>>)

\* Document.get_page_label
get_page_label(d, page_num, b) ==
    LET c == check_open(d)
        calls == <<Call("zpdf_get_page_label", d.handle, page_num, b.ptr, b.n, 0)>>
    IN  IF c.exc # "none" THEN c
        ELSE IF b.ptr = NULL THEN Ret("None", 0, calls)
        ELSE Ret("str", decode(SubSeq(b.data, 1, b.n)),
                 calls \o <<Call("zpdf_free_buffer", NULL, 0, b.ptr, b.n, 0)>>)

\* ------------------------------------------- Document: the array queries

\* A release call of an array query.
Release(fn, a) == Call(fn, NULL, 0, a.ptr, a.n, 0)

\* TextSpan.width and TextSpan.height
width(span) == span.x1 - span.x0

height(span) == span.y1 - span.y0

\* span_of with the corners' x coordinates taken for each other.
span_of_swapped(span) ==
    [x0 |-> span.x1, y0 |-> span.y0, x1 |-> span.x0, y1 |-> span.y1,
     text |-> decode(SubSeq(span.text, 1, span.text_len)), font_size |-> span.font_size]

\* The TextSpan extract_bounds makes of one native span.
span_of(span) ==
    [x0 |-> span.x0, y0 |-> span.y0, x1 |-> span.x1, y1 |-> span.y1,
     text |-> decode(SubSeq(span.text, 1, span.text_len)), font_size |-> span.font_size]

\* Document.extract_bounds
extract_bounds(d, page_num, count, a) ==
    LET c == check_open(d)
        rc == range_check(d, page_num, count)
        calls == rc.calls \o <<Call("zpdf_extract_bounds", d.handle, page_num, a.ptr, a.n, a.rc)>>
    IN  IF c.exc # "none" THEN c
        ELSE IF rc.exc # "none" THEN rc
        ELSE IF a.ptr = NULL /\ a.n = 0 THEN Ret("list", <<>>, calls)
        ELSE IF a.ptr = NULL THEN Raise("ExtractionError", calls)
        ELSE Ret("list", [i \in 1..a.n |-> span_of(a.items[i])],
                 calls \o <<Release("zpdf_free_bounds", a)>>)

\* The fields of CMetadata, in the order metadata reads them.
MetaFields ==
    <<"title", "author", "subject", "keywords", "creator", "producer",
      "creation_date", "mod_date">>

\* metadata's _get_str
get_str(bytes, length) ==
    IF length = 0 THEN NoneStr ELSE Some(decode(SubSeq(bytes, 1, length)))

\* metadata that puts every field in the mapping, present or not.
metadata_keeps_absent(d, result, meta) ==
    LET c == check_open(d)
        calls == <<Call("zpdf_get_metadata", d.handle, 0, NULL, 0, result)>>
    IN  IF c.exc # "none" THEN c
        ELSE IF result # 0 THEN Ret("dict", <<>>, calls)
        ELSE Ret("dict",
                 [f \in {MetaFields[i] : i \in 1..Len(MetaFields)} |->
                    get_str(meta[f].bytes, meta[f].len).v],
                 calls)

\* Document.metadata, the native call handing back the result code and the
\* struct meta (per field, its bytes and its length).
metadata(d, result, meta) ==
    LET c == check_open(d)
        calls == <<Call("zpdf_get_metadata", d.handle, 0, NULL, 0, result)>>
        present == {i \in 1..Len(MetaFields) :
                        get_str(meta[MetaFields[i]].bytes, meta[MetaFields[i]].len) # NoneStr}
    IN  IF c.exc # "none" THEN c
        ELSE IF result # 0 THEN Ret("dict", <<>>, calls)
        ELSE Ret("dict",
                 [f \in {MetaFields[i] : i \in present} |-> get_str(meta[f].bytes, meta[f].len).v],
                 calls)

\* outline_of with > for >= in the test of the page.
outline_of_positive(item) ==
    [title |-> decode(SubSeq(item.title, 1, item.title_len)),
     page |-> IF item.page > 0 THEN Some(item.page) ELSE NoneInt,
     level |-> item.level]

\* The entry outline makes of one native item: a negative page is None.
outline_of(item) ==
    [title |-> decode(SubSeq(item.title, 1, item.title_len)),
     page |-> IF item.page >= 0 THEN Some(item.page) ELSE NoneInt,
     level |-> item.level]

\* Document.outline
outline(d, a) ==
    LET c == check_open(d)
        calls == <<Call("zpdf_get_outline", d.handle, 0, a.ptr, a.n, a.rc)>>
    IN  IF c.exc # "none" THEN c
        ELSE IF a.rc # 0 \/ a.ptr = NULL THEN Ret("list", <<>>, calls)
        ELSE Ret("list", [i \in 1..a.n |-> outline_of(a.items[i])],
                 calls \o <<Release("zpdf_free_outline", a)>>)

\* The match search makes of one native result.
match_of(r) ==
    [page |-> r.page, offset |-> r.offset,
     context |-> decode(SubSeq(r.context, 1, r.context_len))]

\* search that leaves out the last result of the array.
search_skips_last(d, query, a) ==
    LET c == check_open(d)
        query_bytes == encode(query)
        calls == <<Call("zpdf_search", d.handle, 0, a.ptr, a.n, a.rc)>>
    IN  IF c.exc # "none" THEN c
        ELSE IF query_bytes.exc # "none" THEN Raise(query_bytes.exc, <<>>)
        ELSE IF a.rc # 0 \/ a.ptr = NULL THEN Ret("list", <<>>, calls)
        ELSE Ret("list", [i \in 1..(a.n - 1) |-> match_of(a.items[i])],
                 calls \o <<Release("zpdf_free_search_results", a)>>)

\* Document.search; the query goes to the engine encoded, and a is what the
\* engine hands back for it.
search(d, query, a) ==
    LET c == check_open(d)
        query_bytes == encode(query)
        calls == <<Call("zpdf_search", d.handle, 0, a.ptr, a.n, a.rc)>>
    IN  IF c.exc # "none" THEN c
        ELSE IF query_bytes.exc # "none" THEN Raise(query_bytes.exc, <<>>)
        ELSE IF a.rc # 0 \/ a.ptr = NULL THEN Ret("list", <<>>, calls)
        ELSE Ret("list", [i \in 1..a.n |-> match_of(a.items[i])],
                 calls \o <<Release("zpdf_free_search_results", a)>>)

\* link_of with >= for > in the test of uri_len.
link_of_any_uri(link) ==
    [rect |-> <<link.x0, link.y0, link.x1, link.y1>>,
     uri |-> IF link.uri_len >= 0 THEN Some(decode(SubSeq(link.uri, 1, link.uri_len)))
             ELSE NoneStr,
     dest_page |-> IF link.dest_page >= 0 THEN Some(link.dest_page) ELSE NoneInt]

\* The link get_links makes of one native link.
link_of(link) ==
    [rect |-> <<link.x0, link.y0, link.x1, link.y1>>,
     uri |-> IF link.uri_len > 0 THEN Some(decode(SubSeq(link.uri, 1, link.uri_len)))
             ELSE NoneStr,
     dest_page |-> IF link.dest_page >= 0 THEN Some(link.dest_page) ELSE NoneInt]

\* Document.get_links
get_links(d, page_num, a) ==
    LET c == check_open(d)
        calls == <<Call("zpdf_get_page_links", d.handle, page_num, a.ptr, a.n, a.rc)>>
    IN  IF c.exc # "none" THEN c
        ELSE IF a.rc # 0 \/ a.ptr = NULL THEN Ret("list", <<>>, calls)
        ELSE Ret("list", [i \in 1..a.n |-> link_of(a.items[i])],
                 calls \o <<Release("zpdf_free_links", a)>>)

\* The image get_images makes of one native image.
image_of(img) ==
    [rect |-> <<img.x0, img.y0, img.x1, img.y1>>, width |-> img.width, height |-> img.height]

\* Document.get_images
get_images(d, page_num, a) ==
    LET c == check_open(d)
        calls == <<Call("zpdf_get_page_images", d.handle, page_num, a.ptr, a.n, a.rc)>>
    IN  IF c.exc # "none" THEN c
        ELSE IF a.rc # 0 \/ a.ptr = NULL THEN Ret("list", <<>>, calls)
        ELSE Ret("list", [i \in 1..a.n |-> image_of(a.items[i])],
                 calls \o <<Release("zpdf_free_images", a)>>)

\* field_type_name with "text" for the default.
field_type_name_default_text(code) ==
    CASE code = 0 -> "text"
      [] code = 1 -> "button"
      [] code = 2 -> "choice"
      [] code = 3 -> "signature"
      [] code = 4 -> "unknown"
      [] OTHER -> "text"

\* form_fields' field_types.get(code, "unknown")
field_type_name(code) ==
    CASE code = 0 -> "text"
      [] code = 1 -> "button"
      [] code = 2 -> "choice"
      [] code = 3 -> "signature"
      [] code = 4 -> "unknown"
      [] OTHER -> "unknown"

\* The field form_fields makes of one native field.
field_of(f) ==
    [name |-> decode(SubSeq(f.name, 1, f.name_len)),
     value |-> IF f.value_len > 0 THEN Some(decode(SubSeq(f.value, 1, f.value_len)))
               ELSE NoneStr,
     type |-> field_type_name(f.field_type),
     rect |-> IF f.has_rect THEN Some(<<f.x0, f.y0, f.x1, f.y1>>) ELSE NoneRect]

\* Document.form_fields
form_fields(d, a) ==
    LET c == check_open(d)
        calls == <<Call("zpdf_get_form_fields", d.handle, 0, a.ptr, a.n, a.rc)>>
    IN  IF c.exc # "none" THEN c
        ELSE IF a.rc # 0 \/ a.ptr = NULL THEN Ret("list", <<>>, calls)
        ELSE Ret("list", [i \in 1..a.n |-> field_of(a.items[i])],
                 calls \o <<Release("zpdf_free_form_fields", a)>>)

\* iter_next with the range started at 1.
iter_next_from_one(d, g, count, b) ==
    LET pc == page_count(d, count)
        first == g.st = "created"
        n == IF first THEN pc.val ELSE g.n
        i == IF first THEN 1 ELSE g.i + 1
        before == IF first THEN pc.calls ELSE <<>>
        ex == extract_page(d, i, FALSE, count, b)
        over == [st |-> "none", n |-> 0, i |-> 0]
    IN  IF first /\ pc.exc # "none" THEN [gen |-> over, out |-> pc]
        ELSE IF i >= n THEN [gen |-> over, out |-> Raise("StopIteration", before)]
        ELSE [gen |-> IF ex.exc = "none" THEN [st |-> "running", n |-> n, i |-> i] ELSE over,
              out |-> [ex EXCEPT !.calls = before \o @]]

\* Document.__iter__: one step (a next() call) of the generator g.  The first
\* step reads page_count once for range(); every step that finds a next index
\* yields extract_page of it; the generator ends at the end of the range and
\* when anything raises, and the program then drops it.
iter_next(d, g, count, b) ==
    LET pc == page_count(d, count)
        first == g.st = "created"
        n == IF first THEN pc.val ELSE g.n
        i == IF first THEN 0 ELSE g.i + 1
        before == IF first THEN pc.calls ELSE <<>>
        ex == extract_page(d, i, FALSE, count, b)
        over == [st |-> "none", n |-> 0, i |-> 0]
    IN  IF first /\ pc.exc # "none" THEN [gen |-> over, out |-> pc]
        ELSE IF i >= n THEN [gen |-> over, out |-> Raise("StopIteration", before)]
        ELSE [gen |-> IF ex.exc = "none" THEN [st |-> "running", n |-> n, i |-> i] ELSE over,
              out |-> [ex EXCEPT !.calls = before \o @]]

\* ------------------------------------------------- what the engine holds

\* Native structs the engine may put in its arrays.
SpanStructs ==
    {[x0 |-> 0, y0 |-> 0, x1 |-> 2, y1 |-> 1, text |-> <<65>>, text_len |-> 1, font_size |-> 12],
     [x0 |-> 1, y0 |-> 1, x1 |-> 1, y1 |-> 3, text |-> <<195>>, text_len |-> 1, font_size |-> 10]}

OutlineStructs ==
    {[title |-> <<65>>, title_len |-> 1, page |-> 0, level |-> 0],
     [title |-> <<>>, title_len |-> 0, page |-> -1, level |-> 1]}

SearchStructs ==
    {[page |-> 0, offset |-> 0, context |-> <<65>>, context_len |-> 1],
     [page |-> 1, offset |-> 1, context |-> <<169>>, context_len |-> 1]}

LinkStructs ==
    {[x0 |-> 0, y0 |-> 0, x1 |-> 1, y1 |-> 1, uri |-> u, uri_len |-> Len(u), dest_page |-> dp] :
        u \in {<<>>, <<65>>}, dp \in {-1, 0}}

ImageStructs ==
    {[x0 |-> 0, y0 |-> 0, x1 |-> 1, y1 |-> 1, width |-> w, height |-> 1] : w \in {0, 2}}

FormStructs ==
    {[name |-> <<65>>, name_len |-> 1, value |-> v, value_len |-> Len(v), field_type |-> t,
      has_rect |-> t = 0, x0 |-> 0, y0 |-> 0, x1 |-> 1, y1 |-> 1] :
        v \in {<<>>, <<65>>}, t \in {0, 3, 4, 7}}

\* CMetadata structs the engine may fill: no field present, one, two, all.
MetaStructs ==
    LET names == {MetaFields[i] : i \in 1..Len(MetaFields)}
    IN  {[f \in names |-> IF f \in P THEN [bytes |-> <<65>>, len |-> 1]
                          ELSE [bytes |-> <<>>, len |-> 0]] :
            P \in {{}, {"title"}, {"author", "mod_date"}, names}}

\* Page dimensions the engine may report: US Letter, and a rotated A4.
PageInfos == {<<612, 792, 0>>, <<595, 842, 90>>}

\* The documents the engine may open, as the text it extracts of each page:
\* up to MaxPages pages, alternately a page of the text "Ab" and a page of no
\* text, starting with either.
Docs ==
    {[i \in 1..n |-> IF i % 2 = k THEN <<65, 98>> ELSE <<>>] : n \in 0..MaxPages, k \in 0..1}

\* Page arguments a caller may pass: every valid index, one below, one beyond.
PageArgs == -1..MaxPages

\* Modes a caller may pass to extract_all.
Modes == {"accuracy", "fast", "invalid"}

\* Queries a caller may pass to search, as code points: "ab", "AB", "aB",
\* "b", "z", U+00E9, and a str that holds the lone surrogate U+D800.
Queries == {<<97, 98>>, <<65, 66>>, <<97, 66>>, <<98>>, <<122>>, <<233>>, <<55296>>}

\* ----------------------------------------------------------------- actions

\* The threads of a program that shares one Document between two threads.
Threads == {"t1", "t2"}

\* No memory guard has been set up.
NoGuard == [st |-> "none"]

NoGen == [st |-> "none", n |-> 0, i |-> 0, k |-> 0, ended |-> FALSE, again |-> FALSE]

\* The record of an operation.
Op(op, p, ro, mode, bodyExc, r) ==
    [op |-> op, p |-> p, ro |-> ro, mode |-> mode, pre |-> Doc, bodyExc |-> bodyExc,
     exc |-> r.exc, kind |-> r.kind, val |-> r.val, calls |-> r.calls,
     unreleased |-> EngineRun(Engine, r.calls).heap,
     query |-> <<>>, native |-> <<>>]

\* The record of an operation the engine handed the struct or the array
\* elements native to.
OpOn(native, op, p, r) == [Op(op, p, FALSE, "", FALSE, r) EXCEPT !.native = native]

Init ==
    /\ phase = "none"
    /\ handle = NULL
    /\ closed = FALSE
    /\ unsafe_buffer = None
    /\ inWith = FALSE
    /\ gen = NoGen
    /\ pages = 0
    /\ text = <<>>
    /\ live = {}
    /\ closeCalls = 0
    /\ faults = {}
    /\ opened_from = "none"
    /\ at = [t \in Threads |-> "idle"]
    /\ guard = NoGuard
    /\ last = Op("none", 0, FALSE, "", FALSE, Ret("none", 0, <<>>))

\* The engine after the native calls of an operation.
Served(calls) ==
    LET e == EngineRun(Engine, calls)
    IN  /\ live' = e.live
        /\ closeCalls' = e.closeCalls
        /\ faults' = e.faults

\* A query, recorded as rec: the Document and the program's position stay
\* as they are.
Answer(rec) ==
    /\ phase = "open"
    /\ last' = rec
    /\ Served(rec.calls)
    /\ UNCHANGED <<phase, handle, closed, unsafe_buffer, inWith, gen, pages, text,
                   opened_from, at, guard>>

Query(op, p, ro, mode, r) == Answer(Op(op, p, ro, mode, FALSE, r))

\* An operation that may change the Document's slots: r is [doc, exc, calls].
Update(op, bodyExc, exc, r) ==
    /\ last' = Op(op, 0, FALSE, "", bodyExc,
                  [exc |-> exc, kind |-> "none", val |-> 0, calls |-> r.calls])
    /\ handle' = r.doc.handle
    /\ closed' = r.doc.closed
    /\ unsafe_buffer' = r.doc.unsafe_buffer
    /\ Served(r.calls)
    /\ UNCHANGED <<at, guard>>

\* Document(source): the engine opens a document t, of Len(t) pages, or fails.
Open ==
    \E source \in {"path", "bytes"}, h \in {NULL, TheHandle}, t \in Docs :
        LET r == init(source, h)
        IN  /\ phase = "none"
            /\ Update("__init__", FALSE, r.exc, r)
            /\ phase' = IF r.exc = "none" THEN "open" ELSE "failed"
            /\ pages' = IF h = NULL THEN 0 ELSE Len(t)
            /\ text' = IF h = NULL THEN <<>> ELSE t
            /\ opened_from' = source
            /\ UNCHANGED <<inWith, gen>>

\* doc.close()
Close ==
    /\ phase = "open"
    /\ LET r == close(Doc) IN Update("close", FALSE, r.exc, r)
    /\ UNCHANGED <<phase, inWith, gen, pages, text, opened_from>>

\* with doc: (entering; __enter__ returns the Document)
WithEnter ==
    /\ phase = "open"
    /\ ~inWith
    /\ inWith' = TRUE
    /\ last' = Op("__enter__", 0, FALSE, "", FALSE, Ret("Document", 0, <<>>))
    /\ UNCHANGED <<phase, handle, closed, unsafe_buffer, gen, pages, text, live, closeCalls,
                   faults, opened_from, at, guard>>

\* Leaving the with-block, by the end of its body or by an exception raised
\* in it: __exit__ runs, and the exception propagates unless suppressed.
WithExit ==
    \E bodyExc \in BOOLEAN :
        LET r == exit(Doc)
        IN  /\ phase = "open"
            /\ inWith
            /\ inWith' = FALSE
            /\ Update("__exit__", bodyExc,
                      IF r.done.exc # "none" THEN r.done.exc
                      ELSE IF bodyExc /\ ~r.suppress THEN "BodyError" ELSE "none",
                      r.done)
            /\ UNCHANGED <<phase, gen, pages, text, opened_from>>

\* __del__: called on the Document by the program, or as the object is
\* collected (final), which also happens to an object whose constructor raised.
Del ==
    \E final \in BOOLEAN :
        LET r == del(Doc)
        IN  /\ phase \in {"open", "failed"}
            /\ phase = "failed" => final
            /\ final => ~inWith
            /\ Update("__del__", FALSE, r.exc, r)
            /\ phase' = IF ~final THEN phase
                        ELSE IF phase = "failed" THEN "failed_dead" ELSE "dead"
            /\ UNCHANGED <<inWith, gen, pages, text, opened_from>>

PageCount == Query("page_count", 0, FALSE, "", page_count(Doc, zpdf_page_count(handle)))

Length == Query("__len__", 0, FALSE, "", len(Doc, zpdf_page_count(handle)))

IsEncrypted ==
    \E enc \in BOOLEAN : Query("is_encrypted", 0, FALSE, "", is_encrypted(Doc, enc))

GetPageInfo ==
    \E p \in PageArgs, info \in PageInfos :
        Query("get_page_info", p, FALSE, "",
              get_page_info(Doc, p, zpdf_get_page_info(handle, p), info))

ExtractPage ==
    \E p \in PageArgs, ro \in BOOLEAN, b \in BufOutcomes :
        Query("extract_page", p, ro, "", extract_page(Doc, p, ro, zpdf_page_count(handle), b))

ExtractAll ==
    \E mode \in Modes, b \in BufOutcomes :
        Query("extract_all", 0, FALSE, mode, extract_all(Doc, mode, b))

ExtractBounds ==
    \E p \in PageArgs, a \in ArrOutcomes(SpanStructs) :
        Answer(OpOn(a.items, "extract_bounds", p,
                    extract_bounds(Doc, p, zpdf_page_count(handle), a)))

ExtractPageMarkdown ==
    \E p \in PageArgs, b \in BufOutcomes :
        Query("extract_page_markdown", p, FALSE, "",
              extract_page_markdown(Doc, p, zpdf_page_count(handle), b))

ExtractAllMarkdown ==
    \E b \in BufOutcomes :
        Query("extract_all_markdown", 0, FALSE, "", extract_all_markdown(Doc, b))

Metadata ==
    \E result \in {0, -1}, meta \in MetaStructs :
        Answer(OpOn(meta, "metadata", 0, metadata(Doc, result, meta)))

Outline ==
    \E a \in ArrOutcomes(OutlineStructs) :
        Answer(OpOn(a.items, "outline", 0, outline(Doc, a)))

Search ==
    \E query \in Queries, a \in ArrOutcomes(SearchStructs) :
        Answer([OpOn(a.items, "search", 0, search(Doc, query, a)) EXCEPT !.query = query])

GetPageLabel ==
    \E p \in PageArgs, b \in BufOutcomes :
        Query("get_page_label", p, FALSE, "", get_page_label(Doc, p, b))

GetLinks ==
    \E p \in PageArgs, a \in ArrOutcomes(LinkStructs) :
        Answer(OpOn(a.items, "get_links", p, get_links(Doc, p, a)))

GetImages ==
    \E p \in PageArgs, a \in ArrOutcomes(ImageStructs) :
        Query("get_images", p, FALSE, "", get_images(Doc, p, a))

FormFields ==
    \E a \in ArrOutcomes(FormStructs) :
        Answer(OpOn(a.items, "form_fields", 0, form_fields(Doc, a)))

\* next(iter(doc)): the first step of a new generator, which the program
\* does not keep.
IterFirst ==
    \E b \in BufOutcomes :
        Query("__iter__", 0, FALSE, "",
              iter_next(Doc, [st |-> "created", n |-> 0, i |-> 0],
                        zpdf_page_count(handle), b).out)

\* iter(doc): a new generator, no code of __iter__ run yet.
Iter ==
    /\ phase = "open"
    /\ gen' = [st |-> "created", n |-> 0, i |-> 0, k |-> 0, ended |-> gen.ended,
               again |-> gen.ended]
    /\ last' = Op("iter", 0, FALSE, "", FALSE, Ret("generator", 0, <<>>))
    /\ UNCHANGED <<phase, handle, closed, unsafe_buffer, inWith, pages, text, live, closeCalls,
                   faults, opened_from, at, guard>>

\* next() on the generator; the operation's record holds, as p, the number
\* of items the generator had yielded before.
IterNext ==
    \E b \in BufOutcomes :
        LET r == iter_next(Doc, gen, zpdf_page_count(handle), b)
        IN  /\ phase = "open"
            /\ gen.st \in {"created", "running"}
            /\ gen' = [st |-> r.gen.st, n |-> r.gen.n, i |-> r.gen.i,
                       k |-> IF r.out.exc = "none" THEN gen.k + 1 ELSE 0,
                       ended |-> gen.ended \/ r.out.exc = "StopIteration",
                       again |-> gen.again]
            /\ last' = Op("__iter__", gen.k, FALSE, "", FALSE, r.out)
            /\ Served(r.out.calls)
            /\ UNCHANGED <<phase, handle, closed, unsafe_buffer, inWith, pages, text,
                           opened_from, at, guard>>

Next ==
    \/ Open
    \/ Close
    \/ WithEnter
    \/ WithExit
    \/ Del
    \/ PageCount
    \/ Length
    \/ IsEncrypted
    \/ GetPageInfo
    \/ ExtractPage
    \/ ExtractAll
    \/ ExtractBounds
    \/ ExtractPageMarkdown
    \/ ExtractAllMarkdown
    \/ Metadata
    \/ Outline
    \/ Search
    \/ GetPageLabel
    \/ GetLinks
    \/ GetImages
    \/ FormFields
    \/ IterFirst

Spec == Init /\ [][Next]_vars

\* A program that opens a Document and iterates over it, step by step, and
\* may close it on the way.
NextIter ==
    \/ Open
    \/ Close
    \/ Length
    \/ Iter
    \/ IterNext

SpecIter == Init /\ [][NextIter]_vars

\* extract_page over the engine's text of the page.
ExtractPageText ==
    \E p \in PageArgs, ro \in BOOLEAN, e \in {NULL, NewPtr} :
        Query("extract_page", p, ro, "",
              extract_page(Doc, p, ro, zpdf_page_count(handle), zpdf_extract_page(handle, p, e)))

\* extract_all over the engine's text of the document.
ExtractAllText ==
    \E mode \in Modes, e \in {NULL, NewPtr} :
        Query("extract_all", 0, FALSE, mode, extract_all(Doc, mode, zpdf_extract_all(handle, e)))

\* search over the engine's scan of the document.
SearchText ==
    \E query \in Queries, e \in {NULL, NewPtr} :
        LET a == zpdf_search(handle, encode(query).bytes, e)
        IN  Answer([OpOn(a.items, "search", 0, search(Doc, query, a)) EXCEPT !.query = query])

\* A program that opens a Document, extracts text and searches, the engine
\* answering from the document's text, and may close it on the way.
NextEngine ==
    \/ Open
    \/ Close
    \/ ExtractPageText
    \/ ExtractAllText
    \/ SearchText

SpecEngine == Init /\ [][NextEngine]_vars

\* ---------------------------------------- Document: statement by statement

\* Document.__init__, one statement at a time: at pos, on the slots d, for a
\* source of the kind source, the native open handing back h.  The result is
\* the slots after the statement, the exception it raised, the native calls
\* it made and the statement that follows ("idle": the method has ended).
init_step(d, pos, source, h) ==
    IF pos = "init:slots"
    THEN [doc |-> [handle |-> NULL, closed |-> FALSE, unsafe_buffer |-> None],
          exc |-> "none", calls |-> <<>>,
          to |-> IF source = "bytes" THEN "init:buffer" ELSE "init:open"]
    ELSE IF pos = "init:buffer"
    THEN [doc |-> [d EXCEPT !.unsafe_buffer = HeldBuffer],
          exc |-> "none", calls |-> <<>>, to |-> "init:open"]
    ELSE IF pos = "init:open"
    THEN [doc |-> [d EXCEPT !.handle = h], exc |-> "none",
          calls |-> <<Call(IF source = "bytes" THEN "zpdf_open_memory_unsafe" ELSE "zpdf_open",
                           NULL, 0, h, 0, 0)>>,
          to |-> "init:test"]
    ELSE [doc |-> d, exc |-> IF d.handle = NULL THEN "InvalidPdfError" ELSE "none",
          calls |-> <<>>, to |-> "idle"]

\* close_step with the buffer reference dropped first, before the native call.
close_step_buffer_first(d, pos) ==
    IF pos = "close:test"
    THEN [doc |-> d, exc |-> "none", calls |-> <<>>,
          to |-> IF ~d.closed /\ d.handle # NULL THEN "close:buffer" ELSE "idle"]
    ELSE IF pos = "close:buffer"
    THEN [doc |-> [d EXCEPT !.unsafe_buffer = None], exc |-> "none", calls |-> <<>>,
          to |-> "close:call"]
    ELSE IF pos = "close:call"
    THEN [doc |-> d, exc |-> "none",
          calls |-> <<Call("zpdf_close", d.handle, 0, NULL, 0, 0)>>, to |-> "close:handle"]
    ELSE IF pos = "close:handle"
    THEN [doc |-> [d EXCEPT !.handle = NULL], exc |-> "none", calls |-> <<>>,
          to |-> "close:flag"]
    ELSE [doc |-> [d EXCEPT !.closed = TRUE], exc |-> "none", calls |-> <<>>, to |-> "idle"]

\* Document.close, one statement at a time: the test, the native call with
\* the handle the slot holds then, and the three assignments.
close_step(d, pos) ==
    IF pos = "close:test"
    THEN [doc |-> d, exc |-> "none", calls |-> <<>>,
          to |-> IF ~d.closed /\ d.handle # NULL THEN "close:call" ELSE "idle"]
    ELSE IF pos = "close:call"
    THEN [doc |-> d, exc |-> "none",
          calls |-> <<Call("zpdf_close", d.handle, 0, NULL, 0, 0)>>, to |-> "close:handle"]
    ELSE IF pos = "close:handle"
    THEN [doc |-> [d EXCEPT !.handle = NULL], exc |-> "none", calls |-> <<>>,
          to |-> "close:buffer"]
    ELSE IF pos = "close:buffer"
    THEN [doc |-> [d EXCEPT !.unsafe_buffer = None], exc |-> "none", calls |-> <<>>,
          to |-> "close:flag"]
    ELSE [doc |-> [d EXCEPT !.closed = TRUE], exc |-> "none", calls |-> <<>>, to |-> "idle"]

\* Document.extract_page(0), one statement at a time: _check_open, the range
\* check (which reads page_count: its own _check_open and the native count,
\* with the handle the slot holds then), and the native extraction call, with
\* the handle the slot holds then, and what follows it.
extract_page_step(d, pos, count, b) ==
    IF pos = "extract_page:check"
    THEN LET c == check_open(d)
         IN  [doc |-> d, exc |-> c.exc, calls |-> <<>>,
              to |-> IF c.exc # "none" THEN "idle" ELSE "extract_page:range"]
    ELSE IF pos = "extract_page:range"
    THEN LET rc == range_check(d, 0, count)
         IN  [doc |-> d, exc |-> rc.exc, calls |-> rc.calls,
              to |-> IF rc.exc # "none" THEN "idle" ELSE "extract_page:call"]
    ELSE LET r == buffer_result(b, <<Call("zpdf_extract_page", d.handle, 0, b.ptr, b.n, 0)>>)
         IN  [doc |-> d, exc |-> r.exc, calls |-> r.calls, to |-> "idle"]

InitPositions == {"init:slots", "init:buffer", "init:open", "init:test"}

ClosePositions == {"close:test", "close:call", "close:handle", "close:buffer", "close:flag"}

ExtractPagePositions == {"extract_page:check", "extract_page:range", "extract_page:call"}

\* A statement of a method, with the outcome r, run by the thread t.
Step(t, r) ==
    /\ handle' = r.doc.handle
    /\ closed' = r.doc.closed
    /\ unsafe_buffer' = r.doc.unsafe_buffer
    /\ Served(r.calls)
    /\ at' = [at EXCEPT ![t] = r.to]
    /\ UNCHANGED <<inWith, gen, guard, last>>

\* The thread t1 constructs the Document, statement by statement, before any
\* other thread has it.
InitStep ==
    \E source \in {"path", "bytes"}, h \in {NULL, TheHandle}, t \in Docs :
        LET pos == IF phase = "none" THEN "init:slots" ELSE at["t1"]
            r == init_step(Doc, pos, source, h)
            opens == pos = "init:open" /\ h # NULL
        IN  /\ phase \in {"none", "constructing"}
            /\ phase = "constructing" => source = opened_from
            /\ Step("t1", r)
            /\ opened_from' = source
            /\ phase' = IF r.to # "idle" THEN "constructing"
                        ELSE IF r.exc = "none" THEN "open" ELSE "failed"
            /\ pages' = IF opens THEN Len(t) ELSE pages
            /\ text' = IF opens THEN t ELSE text

\* The thread t runs the next statement of doc.close(), or enters it.
CloseStep(t) ==
    /\ phase = "open"
    /\ at[t] \in ClosePositions \cup {"idle"}
    /\ Step(t, close_step(Doc, IF at[t] = "idle" THEN "close:test" ELSE at[t]))
    /\ UNCHANGED <<phase, pages, text, opened_from>>

\* The thread t runs the next statement of doc.extract_page(0), or enters
\* it; the engine answers from the document's text.
ExtractPageStep(t) ==
    /\ phase = "open"
    /\ at[t] \in ExtractPagePositions \cup {"idle"}
    /\ Step(t, extract_page_step(Doc, IF at[t] = "idle" THEN "extract_page:check" ELSE at[t],
                                 zpdf_page_count(handle),
                                 zpdf_extract_page(handle, 0, NewPtr)))
    /\ UNCHANGED <<phase, pages, text, opened_from>>

\* A program that constructs a Document and shares it between two threads,
\* each of which closes it and extracts from it, the threads switching
\* between any two statements.
NextThreads ==
    \/ InitStep
    \/ \E t \in Threads : CloseStep(t)
    \/ \E t \in Threads : ExtractPageStep(t)

SpecThreads == Init /\ [][NextThreads]_vars

\* What zpdf_page_count may hand back for a live handle: the page count, or
\* a negative sentinel when the engine fails to count the pages.
Counts == {-2, -1, pages}

PageCountSentinel ==
    \E count \in Counts : Query("page_count", 0, FALSE, "", page_count(Doc, count))

LengthSentinel ==
    \E count \in Counts : Query("__len__", 0, FALSE, "", len(Doc, count))

ExtractPageSentinel ==
    \E count \in Counts, p \in PageArgs, ro \in BOOLEAN, b \in BufOutcomes :
        Query("extract_page", p, ro, "", extract_page(Doc, p, ro, count, b))

ExtractBoundsSentinel ==
    \E count \in Counts, p \in PageArgs, a \in ArrOutcomes(SpanStructs) :
        Answer(OpOn(a.items, "extract_bounds", p, extract_bounds(Doc, p, count, a)))

ExtractPageMarkdownSentinel ==
    \E count \in Counts, p \in PageArgs, b \in BufOutcomes :
        Query("extract_page_markdown", p, FALSE, "", extract_page_markdown(Doc, p, count, b))

IterFirstSentinel ==
    \E count \in Counts, b \in BufOutcomes :
        Query("__iter__", 0, FALSE, "",
              iter_next(Doc, [st |-> "created", n |-> 0, i |-> 0], count, b).out)

\* A program that opens a Document and reads its page count, directly or
\* through a range check or an iteration, the engine failing to count the
\* pages at times, and may close the Document on the way.
NextSentinel ==
    \/ Open
    \/ Close
    \/ PageCountSentinel
    \/ LengthSentinel
    \/ ExtractPageSentinel
    \/ ExtractBoundsSentinel
    \/ ExtractPageMarkdownSentinel
    \/ IterFirstSentinel

SpecSentinel == Init /\ [][NextSentinel]_vars

\* ------------------------------------------------------- the memory guards

\* A Python float: a number, or NaN (float("nan"), which the float() that
\* parses a threshold accepts).
Float(v) == [nan |-> FALSE, v |-> v]

NaN == [nan |-> TRUE, v |-> 0]

\* a > b, a <= b and a + b of floats: a comparison with NaN is False, a sum
\* with NaN is NaN.
gt(a, b) == ~a.nan /\ ~b.nan /\ a.v > b.v

le(a, b) == ~a.nan /\ ~b.nan /\ a.v <= b.v

add(a, b) == IF a.nan \/ b.nan THEN NaN ELSE Float(a.v + b.v)

\* samples[i] of a Python list: i counts from 0, a negative i from the end.
item(samples, i) == IF i >= 0 THEN samples[i + 1] ELSE samples[Len(samples) + i + 1]

\* tail_growth of memory_guard.py
tail_growth(samples, warmup) ==
    LET warmup_idx == IF warmup - 1 > 0 THEN warmup - 1 ELSE 0
    IN  Float(item(samples, -1) - item(samples, warmup_idx))

\* main of memory_guard.py, for the arguments and the RSS samples of g: the
\* exit code, and the number of extract_all calls made.
main(g) ==
    IF g.iterations <= 0 THEN [code |-> 2, runs |-> 0]
    ELSE IF g.warmup <= 0 \/ g.warmup > g.iterations THEN [code |-> 2, runs |-> 0]
    ELSE IF ~g.pdf THEN [code |-> 2, runs |-> 0]
    ELSE LET accuracy_tail == tail_growth(g.accuracy, g.warmup)
             fast_tail == tail_growth(g.fast, g.warmup)
         IN  [code |-> IF gt(accuracy_tail, g.cap) THEN 1
                       ELSE IF gt(accuracy_tail, add(fast_tail, g.extra)) THEN 1
                       ELSE 0,
              runs |-> 2 * g.iterations]

\* test_extract_all_accuracy_memory_guard, for the settings and the RSS
\* samples of g: skipped without the PDF, failed at the first assertion that
\* does not hold (named), passed otherwise.
test_extract_all_accuracy_memory_guard(g) ==
    IF ~g.pdf THEN "skipped"
    ELSE IF ~(g.iterations > 0) THEN "failed: iterations"
    ELSE IF ~(1 <= g.warmup /\ g.warmup <= g.iterations) THEN "failed: warmup"
    ELSE LET warmup_idx == g.warmup - 1
             accuracy_tail == Float(item(g.accuracy, -1) - item(g.accuracy, warmup_idx))
             fast_tail == Float(item(g.fast, -1) - item(g.fast, warmup_idx))
         IN  IF ~le(accuracy_tail, g.cap) THEN "failed: cap"
             ELSE IF ~le(accuracy_tail, add(fast_tail, g.extra)) THEN "failed: extra"
             ELSE "passed"

\* Iterations and warmups a guard may be given.
IterationArgs == {0, 1, 2}

WarmupArgs == {0, 1, 2, 3}

\* Thresholds a guard may be given, in MB: the cap, and the extra over fast.
CapArgs == {Float(1), NaN}

ExtraArgs == {Float(0), NaN}

\* RSS samples, in MB over the first: the samples of a run of n iterations.
RssValues == {0, 1, 2}

Samples(n) == IF n <= 0 THEN {<<>>} ELSE [1..n -> RssValues]

\* The guards set up: the arguments, whether the PDF is there, and the RSS
\* the process has after each iteration of each mode; no guard has run.
Guards ==
    {[st |-> "ready", iterations |-> n, warmup |-> w, cap |-> cap, extra |-> extra,
      pdf |-> pdf, accuracy |-> acc, fast |-> fast, code |-> -1, runs |-> 0, test |-> "none"] :
        n \in IterationArgs, w \in WarmupArgs, cap \in CapArgs, extra \in ExtraArgs,
        pdf \in BOOLEAN, acc \in UNION {Samples(k) : k \in IterationArgs},
        fast \in UNION {Samples(k) : k \in IterationArgs}}

InitGuard ==
    /\ phase = "none"
    /\ handle = NULL
    /\ closed = FALSE
    /\ unsafe_buffer = None
    /\ inWith = FALSE
    /\ gen = NoGen
    /\ pages = 0
    /\ text = <<>>
    /\ live = {}
    /\ closeCalls = 0
    /\ faults = {}
    /\ opened_from = "none"
    /\ at = [t \in Threads |-> "idle"]
    /\ guard \in {g \in Guards : Len(g.accuracy) = g.iterations /\ Len(g.fast) = g.iterations}
    /\ last = Op("none", 0, FALSE, "", FALSE, Ret("none", 0, <<>>))

\* python memory_guard.py
GuardMain ==
    /\ guard.st = "ready"
    /\ guard.code = -1
    /\ guard' = [guard EXCEPT !.code = main(guard).code, !.runs = main(guard).runs]
    /\ UNCHANGED <<phase, handle, closed, unsafe_buffer, inWith, gen, pages, text, live,
                   closeCalls, faults, opened_from, at, last>>

\* pytest test_memory_regression.py, with ZPDF_RUN_MEMORY_GUARDS=1
GuardTest ==
    /\ guard.st = "ready"
    /\ guard.test = "none"
    /\ guard' = [guard EXCEPT !.test = test_extract_all_accuracy_memory_guard(guard)]
    /\ UNCHANGED <<phase, handle, closed, unsafe_buffer, inWith, gen, pages, text, live,
                   closeCalls, faults, opened_from, at, last>>

NextGuard ==
    \/ GuardMain
    \/ GuardTest

SpecGuard == InitGuard /\ [][NextGuard]_vars

\* ------------------------------------------------------------------ claims

\* The operations that query or extract, as last.op names them.
QueryOps ==
    {"page_count", "__len__", "is_encrypted", "get_page_info", "extract_page",
     "extract_all", "extract_bounds", "extract_page_markdown", "extract_all_markdown",
     "metadata", "outline", "search", "get_page_label", "get_links", "get_images",
     "form_fields", "__iter__"}

\* The operations that close, as last.op names them.
CloseOps == {"close", "__exit__", "__del__"}

\* The operations that check the page index against page_count.
RangeCheckedOps == {"extract_page", "extract_bounds", "extract_page_markdown"}

\* The operations that return the text of a buffer, empty or not.
TextOps ==
    {"extract_page", "extract_all", "extract_page_markdown", "extract_all_markdown"}

\* The native calls of the last operation that are calls of a function in fns.
CallsOf(fns) == {i \in 1..Len(last.calls) : last.calls[i].fn \in fns}

\* C1: once the Document is closed (close() has run: the engine has seen
\* zpdf_close, the closed flag is set), every query or extraction operation,
\* whatever its arguments, raises ValueError and makes no native call.
C1_ClosedHandle ==
    (last.op \in QueryOps /\ (last.pre.closed \/ closeCalls > 0)) =>
        /\ last.exc = "ValueError"
        /\ last.calls = <<>>

\* C1's case: extract_page with an out-of-range index on a closed Document.
C1_Witness ==
    /\ last.op = "extract_page"
    /\ last.p = -1
    /\ last.pre.closed
    /\ closeCalls = 1
    /\ last.exc = "ValueError"

\* C2: zpdf_close is called at most once for the handle, never with a handle
\* the engine has already closed; a close(), __exit__ or __del__ on a closed
\* Document makes no native call and leaves every slot as it was, and close()
\* raises nothing.
C2_CloseIdempotent ==
    /\ closeCalls <= 1
    /\ "double_close" \notin faults
    /\ (last.op \in CloseOps /\ last.pre.closed) =>
            /\ last.calls = <<>>
            /\ Doc = last.pre
            /\ last.op = "close" => last.exc = "none"

\* C2's case: a second close().
C2_Witness ==
    /\ last.op = "close"
    /\ last.pre.closed
    /\ closeCalls = 1

\* C3: on an open Document, extract_page, extract_bounds and
\* extract_page_markdown with a page index below 0 or at or beyond the page
\* count raise PageNotFoundError and call no native extraction function.
C3_PageNotFound ==
    (/\ last.op \in RangeCheckedOps
     /\ ~last.pre.closed
     /\ (last.p < 0 \/ last.p >= pages)) =>
        /\ last.exc = "PageNotFoundError"
        /\ CallsOf(AllocFns) = {}

\* C3's case: extract_bounds with the index just beyond the last page.
C3_Witness ==
    /\ last.op = "extract_bounds"
    /\ ~last.pre.closed
    /\ pages > 0
    /\ last.p = pages
    /\ last.exc = "PageNotFoundError"

\* C4 as stated: on an open Document, extract_page of a valid index returns a
\* string.
C4_ReturnsString ==
    (/\ last.op = "extract_page"
     /\ ~last.pre.closed
     /\ last.p >= 0 /\ last.p < pages) =>
        /\ last.exc = "none"
        /\ last.kind = "str"

\* C4 amended: on an open Document, extract_page of a valid index never raises
\* PageNotFoundError: it returns a string, or raises ExtractionError, which it
\* does exactly when the engine hands back a null buffer with a non-zero
\* length.
C4_ValidPage ==
    (/\ last.op = "extract_page"
     /\ ~last.pre.closed
     /\ last.p >= 0 /\ last.p < pages) =>
        /\ last.exc \in {"none", "ExtractionError"}
        /\ last.exc = "none" => last.kind = "str"
        /\ CallsOf({"zpdf_extract_page", "zpdf_extract_page_reading_order"}) # {}
        /\ \A i \in CallsOf({"zpdf_extract_page", "zpdf_extract_page_reading_order"}) :
                last.exc = "ExtractionError" <=>
                    (last.calls[i].ptr = NULL /\ last.calls[i].n # 0)

\* C4's case: extract_page of the last valid page returns a non-empty string.
C4_Witness ==
    /\ last.op = "extract_page"
    /\ ~last.pre.closed
    /\ pages > 1
    /\ last.p = pages - 1
    /\ last.exc = "none"
    /\ last.kind = "str"
    /\ last.val # <<>>

\* C5: when the native open hands back a null handle the constructor raises
\* InvalidPdfError, and zpdf_close is never called for the failed object,
\* with a handle or with NULL, not even as the object is collected.
C5_FailedOpen ==
    /\ (last.op = "__init__" /\ handle = NULL) =>
            /\ last.exc = "InvalidPdfError"
            /\ phase = "failed"
    /\ phase \in {"failed", "failed_dead"} =>
            /\ closeCalls = 0
            /\ "close_null" \notin faults
            /\ \A i \in 1..Len(last.calls) : last.calls[i].fn # "zpdf_close"

\* C5's case: the object whose constructor raised has been collected.
C5_Witness ==
    /\ phase = "failed_dead"
    /\ last.op = "__del__"
    /\ handle = NULL

\* The calls of the last operation, by the functions in fns, that handed out
\* a block are each followed by exactly one release of that pointer with
\* that length by the paired function, and nothing else is released.
Balanced(fns) ==
    /\ \A i \in CallsOf(fns) :
            last.calls[i].ptr # NULL =>
                Cardinality({j \in CallsOf({ReleasedBy[last.calls[i].fn]}) :
                                /\ j > i
                                /\ last.calls[j].ptr = last.calls[i].ptr
                                /\ last.calls[j].n = last.calls[i].n}) = 1
    /\ \A j \in CallsOf({ReleasedBy[f] : f \in fns}) :
            /\ last.calls[j].ptr # NULL
            /\ \E i \in CallsOf(fns) :
                    /\ i < j
                    /\ ReleasedBy[last.calls[i].fn] = last.calls[j].fn
                    /\ last.calls[i].ptr = last.calls[j].ptr
    /\ Cardinality(CallsOf({ReleasedBy[f] : f \in fns})) <= Cardinality(CallsOf(fns))
    /\ \A blk \in last.unreleased : blk.by \notin {ReleasedBy[f] : f \in fns}

\* C6: every non-null buffer a buffer-returning native call hands back is
\* released exactly once, by zpdf_free_buffer with the same pointer and
\* length, before the operation returns or raises; NULL is never released.
C6_BuffersReleased == Balanced(BufferFns) /\ "bad_free" \notin faults

\* C6's case: a non-null buffer of length zero came back and was released.
C6_Witness ==
    /\ last.op = "extract_page"
    /\ \E i \in CallsOf(BufferFns) : last.calls[i].ptr # NULL /\ last.calls[i].n = 0
    /\ CallsOf({"zpdf_free_buffer"}) # {}

\* C7: for every outcome of the native call (any result code, any count),
\* every non-null array an array-returning query is handed is released
\* exactly once, by its paired release function with the returned count,
\* before the operation returns or raises.
C7_ArraysReleased == Balanced(ArrayFns)

\* C8 as stated: extract_page, extract_all, extract_page_markdown and
\* extract_all_markdown return the empty string only for a non-null buffer of
\* length zero, and report a null buffer as ExtractionError.
C8_EmptyIsNonNull ==
    \A i \in CallsOf(BufferFns) :
        last.op \in TextOps =>
            /\ (last.exc = "none" /\ last.val = <<>>) =>
                    (last.calls[i].ptr # NULL /\ last.calls[i].n = 0)
            /\ last.calls[i].ptr = NULL => last.exc = "ExtractionError"

\* C8 amended: extract_page, extract_all, extract_page_markdown and
\* extract_all_markdown tell an empty result from a failure by the length
\* alone: a null buffer with length zero is an empty result like a non-null
\* buffer of length zero (the empty string is returned exactly when the
\* length is zero), and a null buffer is reported as ExtractionError exactly
\* when its length is not zero.
C8_EmptyIsZeroLength ==
    \A i \in CallsOf(BufferFns) :
        last.op \in TextOps =>
            /\ last.exc \in {"none", "ExtractionError"}
            /\ last.exc = "ExtractionError" <=>
                    (last.calls[i].ptr = NULL /\ last.calls[i].n # 0)
            /\ last.exc = "none" =>
                    /\ last.kind = "str"
                    /\ last.val = <<>> <=> last.calls[i].n = 0

\* C8's case: the engine handed back a null buffer with length zero, and the
\* empty string was returned.
C8_Witness ==
    /\ last.op = "extract_page_markdown"
    /\ \E i \in CallsOf(BufferFns) : last.calls[i].ptr = NULL /\ last.calls[i].n = 0
    /\ last.exc = "none"
    /\ last.kind = "str"
    /\ last.val = <<>>

\* C9: on an open Document, get_page_info raises PageNotFoundError for every
\* index outside [0, page_count) and returns a PageInfo for every index in it.
C9_PageInfo ==
    (last.op = "get_page_info" /\ ~last.pre.closed) =>
        IF last.p >= 0 /\ last.p < pages
        THEN last.exc = "none" /\ last.kind = "PageInfo"
        ELSE last.exc = "PageNotFoundError"

\* C9's case: get_page_info of the index just beyond the last page.
C9_Witness ==
    /\ last.op = "get_page_info"
    /\ ~last.pre.closed
    /\ pages > 0
    /\ last.p = pages
    /\ last.exc = "PageNotFoundError"

\* C10: after a with-block over a Document is left, by the end of its body or
\* by an exception raised in it, the Document is closed, its handle has been
\* passed to zpdf_close exactly once, and an exception of the body propagates.
C10_WithCloses ==
    last.op = "__exit__" =>
        /\ closed
        /\ handle = NULL
        /\ closeCalls = 1
        /\ "double_close" \notin faults
        /\ last.bodyExc => last.exc = "BodyError"
        /\ ~last.bodyExc => last.exc = "none"

\* C10's case: the body raised on an open Document, and __exit__ closed it.
C10_Witness ==
    /\ last.op = "__exit__"
    /\ last.bodyExc
    /\ ~last.pre.closed
    /\ closed
    /\ last.exc = "BodyError"

\* The number of page separators in the text s.
SeparatorsIn(s) == Cardinality({i \in 1..Len(s) : s[i] = Separator})

\* The k-th segment of the text s as the separators cut it: what lies between
\* the (k-1)-th separator (or the start) and the k-th (or the end).
Segment(s, k) ==
    LET seps == {i \in 1..Len(s) : s[i] = Separator}
        Pos(j) == CHOOSE i \in seps : Cardinality({x \in seps : x < i}) = j - 1
        lo == IF k = 1 THEN 0 ELSE Pos(k - 1)
        hi == IF k = Cardinality(seps) + 1 THEN Len(s) + 1 ELSE Pos(k)
    IN  SubSeq(s, lo + 1, hi - 1)

\* C12: extract_all (either mode) of an open Document of N > 1 pages returns
\* a text with exactly N-1 page separators (form feeds), one between each
\* pair of consecutive pages and none before the first or after the last
\* page: the separators cut the text into the N pages' texts, in order.
C12_PageSeparators ==
    (/\ last.op = "extract_all"
     /\ ~last.pre.closed
     /\ last.mode \in {"accuracy", "fast"}
     /\ pages > 1) =>
        /\ last.exc = "none"
        /\ last.kind = "str"
        /\ SeparatorsIn(last.val) = pages - 1
        /\ \A k \in 1..pages : Segment(last.val, k) = decode(text[k])

\* C12's case: extract_all of a document of at least two pages whose last
\* page has no text, so that the text returned ends with the separator.
C12_Witness ==
    /\ last.op = "extract_all"
    /\ last.mode = "accuracy"
    /\ ~last.pre.closed
    /\ pages > 1
    /\ text[pages] = <<>>
    /\ last.exc = "none"
    /\ Len(last.val) > 0
    /\ last.val[Len(last.val)] = Separator

\* C13: search on an open Document never raises, whatever the query and
\* whatever the engine hands back, and returns a list, the empty list when
\* the engine reports no result.
C13_SearchNeverRaises ==
    (last.op = "search" /\ ~last.pre.closed) =>
        /\ last.exc = "none"
        /\ last.kind = "list"
        /\ last.native = <<>> => last.val = <<>>

\* The (page, offset) pairs of a list of matches.
MatchesOf(val) == {<<val[i].page, val[i].offset>> : i \in 1..Len(val)}

\* The str q is, but for the case of letters, a piece of the extracted text
\* of some page.
OccursInText(q) ==
    \E p \in 1..Len(text) :
        LET t == decode(text[p])
        IN  \E o \in 0..Len(t) :
                /\ o + Len(q) <= Len(t)
                /\ FoldAll(SubSeq(t, o + 1, o + Len(q))) = FoldAll(q)

\* C14: search is case-insensitive: a query that is, but for the case of
\* letters, a piece of some page's extracted text returns at least one
\* match, and every query that differs from it only in the case of letters
\* gets the same set of (page, offset) matches.
C14_CaseInsensitive ==
    (/\ last.op = "search"
     /\ ~last.pre.closed
     /\ encode(last.query).exc = "none") =>
        /\ last.exc = "none"
        /\ OccursInText(last.query) => Len(last.val) >= 1
        /\ \A q \in Queries :
                FoldAll(q) = FoldAll(last.query) =>
                    MatchesOf(search(Doc, q, zpdf_search(handle, encode(q).bytes, NULL)).val)
                        = MatchesOf(last.val)

\* C14's case: the query "AB" on a document whose page reads "Ab".
C14_Witness ==
    /\ last.op = "search"
    /\ ~last.pre.closed
    /\ last.query = <<65, 66>>
    /\ \E p \in 1..Len(text) : text[p] = <<65, 98>>
    /\ Len(last.val) >= 1
    /\ last.val[1].offset = 0

\* The native call of the last operation by the function fn handed back
\* result code 0 and a non-null array.
Handed(fn) ==
    \E i \in CallsOf({fn}) : last.calls[i].rc = 0 /\ last.calls[i].ptr # NULL

\* C15: every TextSpan extract_bounds returns has x0 <= x1 and y0 <= y1, and
\* its width and height are x1 - x0 and y1 - y0.
C15_SpanBox ==
    (last.op = "extract_bounds" /\ last.exc = "none") =>
        \A i \in 1..Len(last.val) :
            /\ last.val[i].x0 <= last.val[i].x1
            /\ last.val[i].y0 <= last.val[i].y1
            /\ width(last.val[i]) = last.native[i].x1 - last.native[i].x0
            /\ height(last.val[i]) = last.native[i].y1 - last.native[i].y0
            /\ width(last.val[i]) = last.val[i].x1 - last.val[i].x0
            /\ height(last.val[i]) = last.val[i].y1 - last.val[i].y0

\* C15's case: extract_bounds returned two spans, one of them of width 0.
C15_Witness ==
    /\ last.op = "extract_bounds"
    /\ last.exc = "none"
    /\ Len(last.val) = 2
    /\ width(last.val[1]) = 2
    /\ width(last.val[2]) = 0
    /\ height(last.val[2]) = 2

\* C16: the metadata mapping of an open Document has a key for a field
\* exactly when the native call succeeded and reports the field with a
\* non-zero length (it is empty when the call failed), and no value in it is
\* the empty string or None.
C16_MetadataKeys ==
    (last.op = "metadata" /\ ~last.pre.closed) =>
        /\ last.exc = "none"
        /\ last.kind = "dict"
        /\ \A i \in CallsOf({"zpdf_get_metadata"}) :
                DOMAIN last.val =
                    IF last.calls[i].rc = 0
                    THEN {f \in DOMAIN last.native : last.native[f].len # 0}
                    ELSE {}
        /\ \A f \in DOMAIN last.val : last.val[f] # <<>>

\* C16's case: the engine reports author and mod_date and no other field.
C16_Witness ==
    /\ last.op = "metadata"
    /\ ~last.pre.closed
    /\ last.exc = "none"
    /\ DOMAIN last.val = {"author", "mod_date"}
    /\ last.native["title"].len = 0

\* C17 as stated: no link get_links returns has both a uri and a dest_page,
\* whatever the engine reports in uri_len and dest_page.
C17_UriOrDest ==
    (last.op = "get_links" /\ last.exc = "none") =>
        \A i \in 1..Len(last.val) : ~(last.val[i].uri.some /\ last.val[i].dest_page.some)

\* C17 amended: a link get_links returns has a uri exactly when the engine
\* reports uri_len > 0 for it and a dest_page exactly when the engine reports
\* dest_page >= 0, so that it has both exactly when the engine reports both.
C17_LinkFields ==
    (last.op = "get_links" /\ last.exc = "none") =>
        /\ Handed("zpdf_get_page_links") => Len(last.val) = Len(last.native)
        /\ \A i \in 1..Len(last.val) :
                /\ last.val[i].uri.some <=> last.native[i].uri_len > 0
                /\ last.val[i].dest_page.some <=> last.native[i].dest_page >= 0
                /\ (last.val[i].uri.some /\ last.val[i].dest_page.some) <=>
                        (last.native[i].uri_len > 0 /\ last.native[i].dest_page >= 0)

\* C17's case: two links came back, one of them with neither uri nor
\* dest_page or with only one of them.
C17_Witness ==
    /\ last.op = "get_links"
    /\ last.exc = "none"
    /\ Len(last.val) = 2
    /\ \E i \in 1..2 : ~(last.val[i].uri.some /\ last.val[i].dest_page.some)
    /\ \E i \in 1..2 : last.native[i].uri_len = 0

\* C18: form_fields of an open Document raises nothing, and the type of
\* every field it returns is one of text, button, choice, signature, unknown:
\* unknown for every engine type code outside 0..3.
C18_FieldTypes ==
    (last.op = "form_fields" /\ ~last.pre.closed) =>
        /\ last.exc = "none"
        /\ Handed("zpdf_get_form_fields") => Len(last.val) = Len(last.native)
        /\ \A i \in 1..Len(last.val) :
                /\ last.val[i].type \in {"text", "button", "choice", "signature", "unknown"}
                /\ last.native[i].field_type \notin 0..3 => last.val[i].type = "unknown"

\* C18's case: a field with a type code the wrapper has no name for.
C18_Witness ==
    /\ last.op = "form_fields"
    /\ ~last.pre.closed
    /\ Len(last.val) >= 1
    /\ last.native[1].field_type = 7
    /\ last.val[1].type = "unknown"

\* C19: outline of an open Document raises nothing; every entry's page is a
\* non-negative index or None, None exactly for a negative page of the
\* engine's item; and the entries are the engine's items, none dropped, in
\* the engine's order, each with its level.
C19_OutlinePages ==
    (last.op = "outline" /\ ~last.pre.closed) =>
        /\ last.exc = "none"
        /\ Handed("zpdf_get_outline") => Len(last.val) = Len(last.native)
        /\ \A i \in 1..Len(last.val) :
                /\ last.val[i].page.some => last.val[i].page.v >= 0
                /\ last.val[i].page =
                        IF last.native[i].page >= 0 THEN Some(last.native[i].page) ELSE NoneInt
                /\ last.val[i].level = last.native[i].level
                /\ last.val[i].title =
                        decode(SubSeq(last.native[i].title, 1, last.native[i].title_len))

\* C19's case: an item with an unresolvable destination before an item of
\* page 0.
C19_Witness ==
    /\ last.op = "outline"
    /\ ~last.pre.closed
    /\ Len(last.val) = 2
    /\ last.val[1].page = NoneInt
    /\ last.val[2].page = Some(0)
    /\ last.val[1].level = 1

\* The native extraction calls of the last operation.
PageCalls == CallsOf({"zpdf_extract_page", "zpdf_extract_page_reading_order"})

\* A step of the iteration yielded, as the item after last.p items, the text
\* the engine handed back for page last.p.
YieldsPage ==
    /\ last.exc = "none"
    /\ last.kind = "str"
    /\ last.p < pages
    /\ PageCalls # {}
    /\ \A i \in PageCalls : last.calls[i].fn = "zpdf_extract_page" /\ last.calls[i].p = last.p

\* C20 as stated: every step of an iteration over an open Document yields
\* the text of the next page, from page 0 on, and the iteration ends only
\* after page_count items; len(doc) is page_count.
C20_YieldsEveryPage ==
    /\ (last.op = "__iter__" /\ ~last.pre.closed) =>
            \/ YieldsPage
            \/ last.exc = "StopIteration" /\ last.p = pages
    /\ (last.op = "__len__" /\ ~last.pre.closed) =>
            last.exc = "none" /\ last.val = pages

\* C20 amended: every step of an iteration over an open Document yields the
\* text of the next page, from page 0 on; the iteration ends after
\* page_count items, or earlier with ExtractionError at the first page for
\* which the engine hands back a null buffer with a non-zero length; a new
\* iteration starts from page 0 again; len(doc) is page_count.
C20_YieldsPagesInOrder ==
    /\ (last.op = "__iter__" /\ ~last.pre.closed) =>
            \/ YieldsPage
            \/ last.exc = "StopIteration" /\ last.p = pages /\ PageCalls = {}
            \/ /\ last.exc = "ExtractionError"
               /\ last.p < pages
               /\ PageCalls # {}
               /\ \A i \in PageCalls :
                    /\ last.calls[i].p = last.p
                    /\ last.calls[i].ptr = NULL
                    /\ last.calls[i].n # 0
    /\ (last.op = "__iter__" /\ last.exc = "none") =>
            \A i \in PageCalls : ~(last.calls[i].ptr = NULL /\ last.calls[i].n # 0)
    /\ (last.op = "__len__" /\ ~last.pre.closed) =>
            last.exc = "none" /\ last.val = pages
    /\ gen.st = "created" => gen.k = 0
    /\ gen.st = "running" => gen.k >= 1 /\ gen.k <= pages

\* C20's case: a second iteration of a Document of at least two pages has
\* run to its end, after page_count items.
C20_Witness ==
    /\ last.op = "__iter__"
    /\ ~last.pre.closed
    /\ last.exc = "StopIteration"
    /\ pages > 1
    /\ last.p = pages
    /\ gen.again

\* C21: on an open Document, extract_all with a mode other than "accuracy"
\* and "fast" raises ValueError, makes no native call, and leaves the
\* Document's slots as they were and the Document open.
C21_InvalidMode ==
    (last.op = "extract_all" /\ ~last.pre.closed /\ last.mode \notin {"accuracy", "fast"})
        => /\ last.exc = "ValueError"
           /\ last.calls = <<>>
           /\ Doc = last.pre
           /\ ~closed
           /\ handle \in live

\* C21's case: extract_all(mode="invalid") on an open Document.
C21_Witness ==
    /\ last.op = "extract_all"
    /\ last.mode = "invalid"
    /\ ~last.pre.closed
    /\ last.exc = "ValueError"

\* The last operation was a query or extraction on an open Document that
\* failed: it raised PageNotFoundError or ExtractionError, or it returned
\* although a native call of it reported an error (a non-zero result code, or
\* a null pointer).
FailedOperation ==
    /\ last.op \in QueryOps
    /\ ~last.pre.closed
    /\ \/ last.exc \in {"PageNotFoundError", "ExtractionError"}
       \/ /\ last.exc = "none"
          /\ \E i \in 1..Len(last.calls) :
                \/ last.calls[i].rc # 0
                \/ last.calls[i].fn \in AllocFns /\ last.calls[i].ptr = NULL

\* C24: a step that is a failed operation on an open Document leaves the
\* Document's handle, closed flag and buffer reference as they were, makes
\* no zpdf_close call, and leaves everything a later operation's outcome
\* depends on (the Document's slots, the engine's live handles and its
\* document) as it was before the step.
C24_NeverPoisons ==
    [][FailedOperation' =>
        /\ UNCHANGED <<handle, closed, unsafe_buffer, live, closeCalls, pages, text, phase>>
        /\ \A i \in 1..Len(last'.calls) : last'.calls[i].fn # "zpdf_close"
        /\ handle' \in live']_vars

\* C24's case: extract_page on an open Document raised ExtractionError, and
\* the Document is open with a live handle.
C24_Witness ==
    /\ FailedOperation
    /\ last.op = "extract_page"
    /\ last.exc = "ExtractionError"
    /\ ~closed
    /\ handle \in live

CountingOps == {"page_count", "__len__", "__iter__"} \cup RangeCheckedOps

\* C25: when the native page count of an operation on an open Document is
\* negative, the operation raises InvalidPdfError there and then: it makes no
\* further native call, so no page index is compared with the count and no
\* page is extracted; and page_count and len(doc) return no negative number.
C25_NegativeCount ==
    (last.op \in CountingOps /\ ~last.pre.closed) =>
        /\ \A i \in CallsOf({"zpdf_page_count"}) :
                last.calls[i].n < 0 => last.exc = "InvalidPdfError" /\ Len(last.calls) = i
        /\ last.exc = "InvalidPdfError" =>
                \E i \in CallsOf({"zpdf_page_count"}) : last.calls[i].n < 0
        /\ (last.exc = "none" /\ last.kind = "int") => last.val >= 0

\* C25's case: extract_page with a page index of 0 or more on an open
\* Document whose native page count came back negative.
C25_Witness ==
    /\ last.op = "extract_page"
    /\ ~last.pre.closed
    /\ last.p >= 0
    /\ \E i \in CallsOf({"zpdf_page_count"}) : last.calls[i].n < 0
    /\ last.exc = "InvalidPdfError"

\* C23: for a Document constructed from bytes, at every statement: while the
\* handle slot is non-null, and while the engine holds a handle it opened on
\* the buffer and has not been told to close, the buffer reference is held;
\* and once the Document is constructed the reference is gone only after
\* zpdf_close was called and the handle slot set to null.
C23_BufferHeld ==
    opened_from = "bytes" =>
        /\ handle # NULL => unsafe_buffer = HeldBuffer
        /\ live # {} => unsafe_buffer = HeldBuffer
        /\ (phase = "open" /\ unsafe_buffer = None) =>
                closeCalls >= 1 /\ live = {} /\ handle = NULL

\* C23's case: close() of a Document constructed from bytes has called
\* zpdf_close and not yet set the handle slot to null.
C23_Witness ==
    /\ opened_from = "bytes"
    /\ phase = "open"
    /\ \E t \in Threads : at[t] = "close:handle"
    /\ closeCalls = 1
    /\ handle # NULL
    /\ unsafe_buffer = HeldBuffer

\* C28: whatever the threads' interleaving, zpdf_close is called at most
\* once for the handle, and no native call is made with a null handle or
\* with a handle zpdf_close has been called with.
C28_ConcurrentClose ==
    /\ closeCalls <= 1
    /\ faults \cap {"close_null", "double_close", "dead_handle"} = {}

\* Both guards have run on the same settings and samples, the PDF there.
BothGuardsRan == guard.st = "ready" /\ guard.code # -1 /\ guard.test # "none" /\ guard.pdf

\* C26: on the same samples and thresholds, with 1 <= warmup <= iterations,
\* the command-line guard returns 0 exactly when the pytest guard passes; it
\* returns 2, having run no extraction, exactly when iterations <= 0, warmup
\* is outside [1, iterations] or the PDF is missing; and otherwise 1 exactly
\* when the accuracy tail growth exceeds the cap or the fast tail growth plus
\* the extra.
C26_GuardsAgree ==
    (guard.st = "ready" /\ guard.code # -1) =>
        LET valid == guard.iterations > 0 /\ 1 <= guard.warmup /\ guard.warmup <= guard.iterations
        IN  /\ (guard.code = 2) <=> (~valid \/ ~guard.pdf)
            /\ guard.code = 2 => guard.runs = 0
            /\ (BothGuardsRan /\ valid) =>
                    ((guard.code = 0) <=> (guard.test = "passed"))
            /\ guard.code \in {0, 1, 2}

====
